---- MODULE Spec2Model ----
(***************************************************************************)
(* A model of nefarious/utils.py: torrent locator resolution               *)
(* (swap_jackett_host, trace_torrent_url, results_with_valid_urls), the    *)
(* choice of the best result (get_best_torrent_result) and the naming of   *)
(* downloaded media (get_media_new_name_and_path).                         *)
(*                                                                         *)
(* Strings are sequences of symbols.  In URLs a symbol is either one of    *)
(* the delimiters  : / ? # ;  or a word of letters and digits ("http",     *)
(* "magnet", "localhost", "9117", ...) that contains no delimiter; in      *)
(* release names a symbol is one character.                                *)
(***************************************************************************)
EXTENDS Integers, Sequences, FiniteSets, TLC

VARIABLES
    url,                \* swap_jackett_host / trace_torrent_url: the argument
    nefarious_settings, \* the NefariousSettings record (jackett_host, jackett_port)
    swapped,            \* the value returned by the latest swap_jackett_host call
    swapped_once,       \* the value returned by the first swap_jackett_host call
    swap_count,         \* how many times swap_jackett_host has been applied
    response,           \* what requests.get produces for the traced url
    traced,             \* outcome of trace_torrent_url
    results,            \* the list of result dicts given to the search functions
    populated_results,  \* results_with_valid_urls: references (positions) appended so far
    idx,                \* results_with_valid_urls: position of the loop in results
    get_count,          \* number of HTTP GETs sent so far
    best_result,        \* outcome of get_best_torrent_result
    watch_media,        \* get_media_new_name_and_path: the media record
    torrent_name,       \* get_media_new_name_and_path: the release name
    is_single_file,     \* get_media_new_name_and_path: the flag
    naming,             \* outcome of get_media_new_name_and_path
    pc                  \* position of the modelled call

vars == <<url, nefarious_settings, swapped, swapped_once, swap_count, response,
          traced, results, populated_results, idx, get_count, best_result,
          watch_media, torrent_name, is_single_file, naming, pc>>

urlVars    == <<url, nefarious_settings, swapped, swapped_once, swap_count, response, traced>>
searchVars == <<results, populated_results, idx, get_count, best_result>>
nameVars   == <<watch_media, torrent_name, is_single_file, naming>>

----------------------------------------------------------------------------
(* Bounds *)

MaxUrlLen == 4

MaxSwaps == 2

MaxCandidates == 2

MaxResults == 4

MaxSeeders == 2

MaxNameLen == 5

----------------------------------------------------------------------------
(* Strings *)

\* All sequences over alphabet of length at most n.
StringsUpTo(alphabet, n) == UNION {[1..k -> alphabet] : k \in 0..n}

\* str.find(c, start): the lowest position >= start holding c, 0 when there is none.
Find(s, c, start) ==
    LET hits == {k \in start..Len(s) : s[k] = c}
    IN  IF hits = {} THEN 0 ELSE CHOOSE k \in hits : \A j \in hits : k <= j

\* str.rfind(c): the highest position holding c, 0 when there is none.
RFind(s, c) ==
    LET hits == {k \in 1..Len(s) : s[k] = c}
    IN  IF hits = {} THEN 0 ELSE CHOOSE k \in hits : \A j \in hits : k >= j

StartsWith(s, prefix) ==
    /\ Len(s) >= Len(prefix)
    /\ SubSeq(s, 1, Len(prefix)) = prefix

\* F applied to the value of v, which is computed once.
With(v, F(_)) == CHOOSE r \in {F(x) : x \in {v}} : TRUE

\* Outcomes of a call: a returned value or a raised exception.
Returned(v) == [raised |-> FALSE, value |-> v]
Raised == [raised |-> TRUE]

----------------------------------------------------------------------------
(* urllib.parse.urlparse, as used by swap_jackett_host *)

UrlDelims == {":", "/", "?", "#", ";"}

\* scheme_chars: letters, digits and "+-."; every word symbol consists of them.
IsSchemeChar(c) == c \notin UrlDelims

\* str.lower() on the symbols of a scheme.
LowerSym(c) == IF c = "HTTP" THEN "http" ELSE c
Lower(s) == [k \in 1..Len(s) |-> LowerSym(s[k])]

\* urllib.parse.uses_params, restricted to the schemes of the model.
uses_params == {<<>>, <<"http">>, <<"https">>, <<"ftp">>}

\* The scheme is what precedes the first colon, lower-cased, when that is not
\* empty and consists of scheme characters; otherwise there is no scheme.
SplitScheme(u) ==
    LET i == Find(u, ":", 1)
    IN  IF i > 1 /\ \A k \in 1..(i - 1) : IsSchemeChar(u[k])
        THEN [scheme |-> Lower(SubSeq(u, 1, i - 1)), rest |-> SubSeq(u, i + 1, Len(u))]
        ELSE [scheme |-> <<>>, rest |-> u]

\* _splitnetloc(url, 2): after a leading //, the network location ends at the
\* first of / ? #.
splitnetloc(u) ==
    LET ends  == {k \in 3..Len(u) : u[k] \in {"/", "?", "#"}}
        delim == IF ends = {} THEN Len(u) + 1
                 ELSE CHOOSE k \in ends : \A j \in ends : k <= j
    IN  IF StartsWith(u, <<"/", "/">>)
        THEN [netloc |-> SubSeq(u, 3, delim - 1), rest |-> SubSeq(u, delim, Len(u))]
        ELSE [netloc |-> <<>>, rest |-> u]

\* url.split('#', 1) and url.split('?', 1): what precedes and what follows the
\* first c.
SplitAt(u, c) ==
    LET i == Find(u, c, 1)
    IN  IF i > 0 THEN [head |-> SubSeq(u, 1, i - 1), tail |-> SubSeq(u, i + 1, Len(u))]
        ELSE [head |-> u, tail |-> <<>>]

\* urlsplit: scheme, netloc, path (parameters included), query, fragment.
urlsplit(u) ==
    With(SplitScheme(u), LAMBDA s :
    With(splitnetloc(s.rest), LAMBDA n :
    With(SplitAt(n.rest, "#"), LAMBDA f :
    With(SplitAt(f.head, "?"), LAMBDA q :
        [scheme |-> s.scheme, netloc |-> n.netloc, path |-> q.head,
         query |-> q.tail, fragment |-> f.tail]))))

\* _splitparams: the parameters of the last path segment.
splitparams(path) ==
    LET slash == RFind(path, "/")
        i     == IF slash > 0 THEN Find(path, ";", slash) ELSE Find(path, ";", 1)
    IN  IF i = 0 THEN [path |-> path, params |-> <<>>]
        ELSE [path |-> SubSeq(path, 1, i - 1), params |-> SubSeq(path, i + 1, Len(path))]

\* urlparse: urlsplit, then the parameters are cut off the path for the
\* schemes that use them.
urlparse(u) ==
    With(urlsplit(u), LAMBDA s :
    With(IF s.scheme \in uses_params /\ Find(s.path, ";", 1) > 0
         THEN splitparams(s.path)
         ELSE [path |-> s.path, params |-> <<>>], LAMBDA sp :
        [scheme |-> s.scheme, netloc |-> s.netloc, path |-> sp.path,
         params |-> sp.params, query |-> s.query, fragment |-> s.fragment]))

----------------------------------------------------------------------------
(* is_magnet_url, swap_jackett_host *)

is_magnet_url(u) == StartsWith(u, <<"magnet", ":">>)

\* '{}://{}:{}{}?{}'.format(scheme, jackett_host, jackett_port, path, query)
swap_jackett_host(u, settings) ==
    With(urlparse(u), LAMBDA parsed :
        parsed.scheme \o <<":", "/", "/">> \o settings.jackett_host \o <<":">>
        \o settings.jackett_port \o parsed.path \o <<"?">> \o parsed.query)

\* The settings the calls are made with: host and port as they are formatted.
Settings == {[jackett_host |-> <<"localhost">>, jackett_port |-> <<"9117">>]}

----------------------------------------------------------------------------
(* Values of the variables a specification does not use *)

IdleUrl ==
    /\ url = <<>>
    /\ nefarious_settings \in Settings
    /\ swapped = <<>>
    /\ swapped_once = <<>>
    /\ swap_count = 0
    /\ response = [kind |-> "none"]
    /\ traced = [raised |-> FALSE, value |-> <<>>]

IdleSearch ==
    /\ results = <<>>
    /\ populated_results = <<>>
    /\ idx = 1
    /\ get_count = 0
    /\ best_result = 0

IdleName ==
    /\ watch_media = [kind |-> "none"]
    /\ torrent_name = <<>>
    /\ is_single_file = FALSE
    /\ naming = [raised |-> FALSE]

----------------------------------------------------------------------------
(* Specification SpecSwap: swap_jackett_host applied repeatedly to a url *)

SwapAlphabet == {"http", "a", ":", "/", "?", "#", ";"}

\* Links as an indexer produces them, and variations on them.
SwapSchemes   == {<<>>, <<"http", ":">>, <<"HTTP", ":">>, <<"magnet", ":">>}
SwapNetlocs   == {<<>>, <<"/", "/", "tracker">>}
SwapPaths     == {<<>>, <<"/", "dl">>, <<"/", "dl", ";", "a">>, <<"/", "dl", ";", "a", "/", "f">>}
SwapQueries   == {<<>>, <<"?">>, <<"?", "q">>, <<"?", "q", "?", "q">>}
SwapFragments == {<<>>, <<"#", "f">>}

StructuredUrls ==
    {s \o n \o p \o q \o f : s \in SwapSchemes, n \in SwapNetlocs, p \in SwapPaths,
                            q \in SwapQueries, f \in SwapFragments}

SwapUrls == StringsUpTo(SwapAlphabet, MaxUrlLen) \cup StructuredUrls

InitSwap ==
    /\ url \in SwapUrls
    /\ nefarious_settings \in Settings
    /\ swapped = <<>>
    /\ swapped_once = <<>>
    /\ swap_count = 0
    /\ response = [kind |-> "none"]
    /\ traced = [raised |-> FALSE, value |-> <<>>]
    /\ IdleSearch
    /\ IdleName
    /\ pc = "swap"

SwapJackettHost ==
    /\ pc = "swap"
    /\ swap_count < MaxSwaps
    /\ swapped' = swap_jackett_host(IF swap_count = 0 THEN url ELSE swapped,
                                    nefarious_settings)
    /\ swapped_once' = IF swap_count = 0 THEN swapped' ELSE swapped_once
    /\ swap_count' = swap_count + 1
    /\ UNCHANGED <<url, nefarious_settings, response, traced, searchVars, nameVars, pc>>

NextSwap == SwapJackettHost

SpecSwap == InitSwap /\ [][NextSwap]_vars

----------------------------------------------------------------------------
(* requests.get(url, allow_redirects=False, timeout=30) and the response *)

\* The answers of the server to one GET: no answer at all (connection refused,
\* timeout), or a status code with or without a Location header.
NetworkError == [kind |-> "error", status_code |-> 0, has_location |-> FALSE, location |-> <<>>]

HttpResponse(status, hasLocation, location) ==
    [kind |-> "response", status_code |-> status, has_location |-> hasLocation,
     location |-> location]

MagnetLocation   == <<"magnet", ":", "?", "xt">>
HttpLocation     == <<"http", ":", "/", "/", "cdn", "/", "file">>
RelativeLocation == <<"/", "dl", "/", "file">>

\* requests sends a url only through the adapters mounted for the prefixes
\* 'http://' and 'https://'; any other url raises before a request is sent.
CanSend(u) ==
    \/ StartsWith(u, <<"http", ":", "/", "/">>)
    \/ StartsWith(u, <<"https", ":", "/", "/">>)

\* requests.get: raises for a url it cannot send and when the server gives no answer.
requests_get(u, answer) == IF CanSend(u) THEN answer ELSE NetworkError

\* Response.ok: raise_for_status() raises for 400 <= status_code < 600 only.
ResponseOk(r) == ~(400 <= r.status_code /\ r.status_code < 600)

\* requests.models.REDIRECT_STATI
REDIRECT_STATI == {301, 302, 303, 307, 308}

\* A variant that takes every 3xx status for a redirect.
is_redirect_3xx(r) == r.has_location /\ 300 <= r.status_code /\ r.status_code < 400

\* Response.is_redirect: a Location header and a status code in REDIRECT_STATI.
is_redirect(r) == r.has_location /\ r.status_code \in REDIRECT_STATI

----------------------------------------------------------------------------
(* trace_torrent_url *)

\* The outcome of a resolution: raised or the value, and the GETs it sent.
Resolved(v, n) == [raised |-> FALSE, value |-> v, gets |-> n]
Failed(n) == [raised |-> TRUE, value |-> <<>>, gets |-> n]

Sent(u) == IF CanSend(u) THEN 1 ELSE 0

\* A variant that takes the Location of any redirect, magnet or not.
trace_torrent_url_any_location(u, answer) ==
    IF is_magnet_url(u) THEN Resolved(u, 0)
    ELSE With(requests_get(u, answer), LAMBDA r :
             IF r.kind = "error" THEN Failed(Sent(u))
             ELSE IF ~ResponseOk(r) THEN Failed(1)
             ELSE IF is_redirect(r) THEN Resolved(r.location, 1)
             ELSE Resolved(u, 1))

trace_torrent_url(u, answer) ==
    IF is_magnet_url(u) THEN Resolved(u, 0)
    ELSE With(requests_get(u, answer), LAMBDA r :
             IF r.kind = "error" THEN Failed(Sent(u))
             ELSE IF ~ResponseOk(r) THEN Failed(1)
             ELSE IF is_redirect(r) /\ is_magnet_url(r.location) THEN Resolved(r.location, 1)
             ELSE Resolved(u, 1))

----------------------------------------------------------------------------
(* Specification SpecTrace: one call of trace_torrent_url *)

StatusCodes == {200, 204, 300, 301, 302, 303, 304, 307, 308, 400, 404, 500}

ServerAnswers ==
    {NetworkError}
    \cup {HttpResponse(s, FALSE, <<>>) : s \in StatusCodes}
    \cup {HttpResponse(s, TRUE, l) : s \in StatusCodes,
                                     l \in {MagnetLocation, HttpLocation, RelativeLocation}}

\* Links of results, before the host is swapped.
TraceLinks ==
    {<<"http", ":", "/", "/", "tracker", "/", "dl", "?", "q">>,
     <<"https", ":", "/", "/", "tracker", "/", "dl">>,
     <<"ftp", ":", "/", "/", "tracker", "/", "dl">>,
     <<"/", "dl", "?", "q">>,
     <<"magnet", ":", "?", "xt">>}

InitTrace ==
    /\ nefarious_settings \in Settings
    /\ url \in {swap_jackett_host(l, nefarious_settings) : l \in TraceLinks}
    /\ response \in ServerAnswers
    /\ swapped = <<>>
    /\ swapped_once = <<>>
    /\ swap_count = 0
    /\ traced = [raised |-> FALSE, value |-> <<>>]
    /\ IdleSearch
    /\ IdleName
    /\ pc = "trace"

TraceTorrentUrl ==
    /\ pc = "trace"
    /\ \E out \in {trace_torrent_url(url, response)} :
           /\ traced' = IF out.raised THEN Raised ELSE Returned(out.value)
           /\ get_count' = get_count + out.gets
    /\ pc' = "traced"
    /\ UNCHANGED <<url, nefarious_settings, swapped, swapped_once, swap_count, response,
                   results, populated_results, idx, best_result, nameVars>>

NextTrace == TraceTorrentUrl

SpecTrace == InitTrace /\ [][NextTrace]_vars

----------------------------------------------------------------------------
(* results_with_valid_urls *)

\* The value of result['MagnetUri']: the key may be missing from the dict, and
\* its value may be None or a string.
MissingKey == [tag |-> "missing", s |-> <<>>]
PyNone     == [tag |-> "None", s |-> <<>>]
Str(s)     == [tag |-> "str", s |-> s]

\* Python truthiness of a value that is None or a string.
Truthy(v) == v.tag = "str" /\ v.s # <<>>

\* The indexer behind the swapped host answers by the last word of the path.
Server(u) ==
    With(urlparse(u).path, LAMBDA path :
    With(IF path = <<>> THEN "" ELSE path[Len(path)], LAMBDA word :
        CASE word = "ok"       -> HttpResponse(200, FALSE, <<>>)
          [] word = "tomagnet" -> HttpResponse(302, TRUE, MagnetLocation)
          [] word = "moved"    -> HttpResponse(302, TRUE, RelativeLocation)
          [] word = "gone"     -> HttpResponse(404, FALSE, <<>>)
          [] word = "choices"  -> HttpResponse(300, TRUE, MagnetLocation)
          [] OTHER             -> NetworkError))

\* The swapped Link of a result, traced against the indexer.
TraceSwapped(result, settings) ==
    With(swap_jackett_host(result.Link, settings), LAMBDA u :
    With(Server(u), LAMBDA answer : trace_torrent_url(u, answer)))

\* result['MagnetUri'] or trace_torrent_url(swap_jackett_host(result['Link'], settings)),
\* with both operands evaluated before the choice.
ResolveTorrentUrlEager(result, settings) ==
    With(TraceSwapped(result, settings), LAMBDA t :
        IF result.MagnetUri.tag = "missing" THEN Failed(0)
        ELSE IF t.raised THEN t
        ELSE IF Truthy(result.MagnetUri) THEN Resolved(result.MagnetUri.s, t.gets)
        ELSE t)

\* result['MagnetUri'] or trace_torrent_url(swap_jackett_host(result['Link'], settings)):
\* a missing key raises KeyError, a truthy MagnetUri is the value and nothing
\* else is evaluated, otherwise the swapped Link is traced.
ResolveTorrentUrl(result, settings) ==
    IF result.MagnetUri.tag = "missing" THEN Failed(0)
    ELSE IF Truthy(result.MagnetUri) THEN Resolved(result.MagnetUri.s, 0)
    ELSE TraceSwapped(result, settings)

\* A variant whose exception handler falls through to the append.
PopulateAlways(populated, i, out) == Append(populated, i)

\* except Exception: continue; otherwise populated_results.append(result).
Populate(populated, i, out) == IF out.raised THEN populated ELSE Append(populated, i)

\* result['torrent_url'] = ...: the assignment happens only when nothing raised.
Annotate(result, out) ==
    IF out.raised THEN result ELSE [result EXCEPT !.torrent_url = Str(out.value)]

----------------------------------------------------------------------------
(* Specification SpecFilter: results_with_valid_urls over a list of results *)

FilterMagnetUris ==
    {MissingKey, PyNone, Str(<<>>), Str(MagnetLocation), Str(<<"n", "/", "a">>)}

FilterLinks ==
    {<<"http", ":", "/", "/", "tracker", "/", "dl", "/", w, "?", "q">> :
        w \in {"ok", "tomagnet", "moved", "gone", "choices", "timeout"}}
    \cup {<<"ftp", ":", "/", "/", "tracker", "/", "dl", "/", "ok">>,
          <<"magnet", ":", "?", "xt">>}

Candidates ==
    {[Title |-> <<"t">>, Link |-> l, MagnetUri |-> m, Seeders |-> 1,
      torrent_url |-> MissingKey] : l \in FilterLinks, m \in FilterMagnetUris}

InitFilter ==
    /\ IdleUrl
    /\ IdleName
    /\ results \in StringsUpTo(Candidates, MaxCandidates)
    /\ populated_results = <<>>
    /\ idx = 1
    /\ get_count = 0
    /\ best_result = 0
    /\ pc = IF results = <<>> THEN "filtered" ELSE "filter"

\* One iteration of the loop over results; the last one returns populated_results.
ResultsWithValidUrlsStep ==
    /\ pc = "filter"
    /\ idx <= Len(results)
    /\ \E out \in {ResolveTorrentUrl(results[idx], nefarious_settings)} :
           /\ results' = [results EXCEPT ![idx] = Annotate(results[idx], out)]
           /\ populated_results' = Populate(populated_results, idx, out)
           /\ get_count' = get_count + out.gets
    /\ idx' = idx + 1
    /\ pc' = IF idx' > Len(results) THEN "filtered" ELSE "filter"
    /\ UNCHANGED <<urlVars, best_result, nameVars>>

NextFilter == ResultsWithValidUrlsStep

SpecFilter == InitFilter /\ [][NextFilter]_vars

----------------------------------------------------------------------------
(* get_best_torrent_result *)

\* A variant that also replaces the best result on a tie.
OutranksOrTies(result, best) == result["Seeders"] >= best["Seeders"]

\* result['Seeders'] > best_result['Seeders']
Outranks(result, best) == result["Seeders"] > best["Seeders"]

\* The for loop from position i on, best being the position of best_result.
RECURSIVE BestFrom(_, _, _)
BestFrom(rs, i, best) ==
    IF i > Len(rs) THEN best
    ELSE BestFrom(rs, i + 1, IF Outranks(rs[i], rs[best]) THEN i ELSE best)

\* The position in results of the dict that is returned, 0 for None.
get_best_torrent_result(rs) == IF rs # <<>> THEN BestFrom(rs, 1, 1) ELSE 0

----------------------------------------------------------------------------
(* Specification SpecRank: get_best_torrent_result over a list of results *)

RankedResults == {[Title |-> <<"t">>, Seeders |-> s] : s \in 0..MaxSeeders}

InitRank ==
    /\ IdleUrl
    /\ IdleName
    /\ results \in StringsUpTo(RankedResults, MaxResults)
    /\ populated_results = <<>>
    /\ idx = 1
    /\ get_count = 0
    /\ best_result = 0
    /\ pc = "rank"

GetBestTorrentResult ==
    /\ pc = "rank"
    /\ best_result' = get_best_torrent_result(results)
    /\ pc' = "ranked"
    /\ UNCHANGED <<urlVars, results, populated_results, idx, get_count, nameVars>>

NextRank == GetBestTorrentResult

SpecRank == InitRank /\ [][NextRank]_vars

----------------------------------------------------------------------------
(* get_media_new_name_and_path *)

\* str(n) of a non-negative int: its decimal digits.
Digit(d) == CASE d = 0 -> "0" [] d = 1 -> "1" [] d = 2 -> "2" [] d = 3 -> "3"
              [] d = 4 -> "4" [] d = 5 -> "5" [] d = 6 -> "6" [] d = 7 -> "7"
              [] d = 8 -> "8" [] d = 9 -> "9"

RECURSIVE PyStrInt(_)
PyStrInt(n) == IF n < 10 THEN <<Digit(n)>> ELSE PyStrInt(n \div 10) \o <<Digit(n % 10)>>

\* A variant without the padding: '{:d}'.format(n).
FormatUnpadded(n) == PyStrInt(n)

\* '{:02d}'.format(n) of a non-negative int: zero-padded to at least two digits.
Format02d(n) == IF n < 10 THEN <<"0">> \o PyStrInt(n) ELSE PyStrInt(n)

\* str() of a model instance: the name of the movie or show.
PyStr(obj) == obj.name

\* os.path.join(a, b) on POSIX.
PathJoin(a, b) ==
    IF StartsWith(b, <<"/">>) THEN b
    ELSE IF a = <<>> \/ a[Len(a)] = "/" THEN a \o b
    ELSE a \o <<"/">> \o b

\* The characters \w matches, among those of the release names of the model.
IsWordChar(c) == c \in {"m", "k", "v", "4", "_"}

\* $ matches at the end of the string and just before a newline that ends it.
AtDollar(s, j) == j = Len(s) \/ (j = Len(s) - 1 /\ s[Len(s)] = "\n")

\* A search for (\.\w+) without the anchor: the leftmost dot followed by word
\* characters, as many as there are.
RegexSearchUnanchored(s) ==
    LET starts == {i \in 1..(Len(s) - 1) : s[i] = "." /\ IsWordChar(s[i + 1])}
        i == CHOOSE k \in starts : \A l \in starts : k <= l
        ends == {j \in (i + 1)..Len(s) : \A k \in (i + 1)..j : IsWordChar(s[k])}
        j == CHOOSE k \in ends : \A l \in ends : k >= l
    IN  IF starts = {} THEN [found |-> FALSE, group |-> <<>>]
        ELSE [found |-> TRUE, group |-> SubSeq(s, i, j)]

\* regex.search(r'(\.\w+)$', s): the leftmost position where a dot, then one or
\* more word characters, then $ match; group() is the dot and the word characters.
RegexSearchExtension(s) ==
    LET ends(i) == {j \in (i + 1)..Len(s) :
                       /\ \A k \in (i + 1)..j : IsWordChar(s[k])
                       /\ AtDollar(s, j)}
        starts == {i \in 1..Len(s) : s[i] = "." /\ ends(i) # {}}
        i == CHOOSE k \in starts : \A l \in starts : k <= l
        j == CHOOSE k \in ends(i) : \A l \in ends(i) : k >= l
    IN  IF starts = {} THEN [found |-> FALSE, group |-> <<>>]
        ELSE [found |-> TRUE, group |-> SubSeq(s, i, j)]

Named(name, dir) == [raised |-> FALSE, name |-> name, dir_name |-> dir]

\* A variant whose last branch does not raise.
MediaNamesNoRaise(media) ==
    IF media.kind = "WatchMovie"
    THEN LET name == PyStr(media) \o <<" ", "(">> \o PyStrInt(media.release_date.year) \o <<")">>
         IN  Named(name, name)
    ELSE IF media.kind = "WatchTVSeason"
    THEN Named(<<"Season", " ">> \o Format02d(media.season_number), PyStr(media.watch_tv_show))
    ELSE IF media.kind = "WatchTVEpisode"
    THEN Named(<<"S">> \o Format02d(media.season_number) \o <<"E">> \o Format02d(media.episode_number),
               PathJoin(PyStr(media.watch_tv_show),
                        <<"Season", " ">> \o Format02d(media.season_number)))
    ELSE Named(PyStr(media), PyStr(media))

\* The isinstance branches: name and dir_name before the extension is handled.
MediaNames(media) ==
    IF media.kind = "WatchMovie"
    THEN LET name == PyStr(media) \o <<" ", "(">> \o PyStrInt(media.release_date.year) \o <<")">>
         IN  Named(name, name)
    ELSE IF media.kind = "WatchTVSeason"
    THEN Named(<<"Season", " ">> \o Format02d(media.season_number), PyStr(media.watch_tv_show))
    ELSE IF media.kind = "WatchTVEpisode"
    THEN Named(<<"S">> \o Format02d(media.season_number) \o <<"E">> \o Format02d(media.episode_number),
               PathJoin(PyStr(media.watch_tv_show),
                        <<"Season", " ">> \o Format02d(media.season_number)))
    ELSE Raised

get_media_new_name_and_path(media, name, single) ==
    With(MediaNames(media), LAMBDA base :
    With(RegexSearchExtension(name), LAMBDA extension_match :
        IF base.raised THEN Raised
        ELSE IF single /\ extension_match.found
        THEN Named(base.name \o extension_match.group, base.dir_name)
        ELSE base))

----------------------------------------------------------------------------
(* Specification SpecName: one call of get_media_new_name_and_path *)

NameAlphabet == {"m", ".", "]", "\n"}

SeasonNumbers  == {1, 3, 12, 99}
EpisodeNumbers == {5, 14}

Show == [kind |-> "WatchTVShow", name |-> <<"Rick and Morty">>]

WatchMovies ==
    {[kind |-> "WatchMovie", name |-> <<"Rambo">>, release_date |-> [year |-> y]] :
        y \in {1982, 2008}}

WatchTVSeasons ==
    {[kind |-> "WatchTVSeason", watch_tv_show |-> Show, season_number |-> n] :
        n \in SeasonNumbers}

WatchTVEpisodes ==
    {[kind |-> "WatchTVEpisode", watch_tv_show |-> Show, season_number |-> n,
      episode_number |-> e] : n \in SeasonNumbers, e \in EpisodeNumbers}

\* The three kinds the function names, and an instance of another model.
WatchMedia == WatchMovies \cup WatchTVSeasons \cup WatchTVEpisodes \cup {Show}

InitName ==
    /\ IdleUrl
    /\ IdleSearch
    /\ watch_media \in WatchMedia
    /\ torrent_name \in StringsUpTo(NameAlphabet, MaxNameLen)
    /\ is_single_file \in BOOLEAN
    /\ naming = [raised |-> FALSE]
    /\ pc = "name"

GetMediaNewNameAndPath ==
    /\ pc = "name"
    /\ naming' = get_media_new_name_and_path(watch_media, torrent_name, is_single_file)
    /\ pc' = "named"
    /\ UNCHANGED <<urlVars, searchVars, watch_media, torrent_name, is_single_file>>

NextName == GetMediaNewNameAndPath

SpecName == InitName /\ [][NextName]_vars

----------------------------------------------------------------------------
(* Properties of get_best_torrent_result *)

\* Position i holds the first maximum of Seeders in rs.
IsFirstArgMax(rs, i) ==
    /\ i \in 1..Len(rs)
    /\ \A j \in 1..Len(rs) : rs[i]["Seeders"] >= rs[j]["Seeders"]
    /\ \A j \in 1..(i - 1) : rs[j]["Seeders"] < rs[i]["Seeders"]

\* C1: get_best_torrent_result returns None for an empty list and otherwise the
\* element at the lowest position whose Seeders is at least that of every
\* element; an element that only ties the best never replaces it.
C1_FirstArgMax ==
    pc = "ranked" =>
        IF results = <<>> THEN best_result = 0 ELSE IsFirstArgMax(results, best_result)

\* A tie for the maximum after a smaller first element: the earlier of the two is returned.
C1_Witness ==
    /\ pc = "ranked"
    /\ Len(results) >= 3
    /\ results[1]["Seeders"] < results[2]["Seeders"]
    /\ results[2]["Seeders"] = results[3]["Seeders"]
    /\ \A j \in 1..Len(results) : results[j]["Seeders"] <= results[2]["Seeders"]
    /\ best_result = 2

----------------------------------------------------------------------------
(* Properties of results_with_valid_urls *)

IsHttpUrl(u) ==
    \/ StartsWith(u, <<"http", ":", "/", "/">>)
    \/ StartsWith(u, <<"https", ":", "/", "/">>)

\* The resolution of a candidate's locator succeeds: it has a MagnetUri that
\* is not empty, or its swapped Link is a magnet url, or the GET of the swapped
\* Link is answered with a status that is not an error.
ResolutionSucceeds(r) ==
    /\ r.MagnetUri.tag # "missing"
    /\ \/ Truthy(r.MagnetUri)
       \/ \E u \in {swap_jackett_host(r.Link, nefarious_settings)} :
              \/ is_magnet_url(u)
              \/ /\ IsHttpUrl(u)
                 /\ Server(u).kind = "response"
                 /\ Server(u).status_code < 400

\* The positions up to n whose resolution succeeds, in increasing order.
RECURSIVE SucceededUpTo(_)
SucceededUpTo(n) ==
    IF n = 0 THEN <<>>
    ELSE IF ResolutionSucceeds(results[n]) THEN Append(SucceededUpTo(n - 1), n)
    ELSE SucceededUpTo(n - 1)

\* C2: results_with_valid_urls returns exactly the candidates whose resolution
\* succeeded, in their original order; a candidate whose resolution fails is
\* left out, nothing is raised, and every later candidate is still processed.
C2_ExactlyTheResolved ==
    /\ pc \in {"filter", "filtered"}
    /\ idx \in 1..(Len(results) + 1)
    /\ pc = "filtered" <=> idx = Len(results) + 1
    /\ populated_results = SucceededUpTo(idx - 1)
    /\ Len(populated_results) <= Len(results)

\* A failed candidate followed by a resolved one: only the second is returned.
C2_Witness ==
    /\ pc = "filtered"
    /\ Len(results) = 2
    /\ ~ResolutionSucceeds(results[1])
    /\ results[1].MagnetUri = PyNone
    /\ ResolutionSucceeds(results[2])
    /\ populated_results = <<2>>

\* C3: a candidate whose MagnetUri is not empty gets exactly that value as
\* torrent_url, is returned, and no GET is sent while it is processed,
\* whatever its Link is.
C3_MagnetShortCircuit ==
    [][(/\ pc = "filter"
        /\ idx <= Len(results)
        /\ Truthy(results[idx].MagnetUri)
        /\ idx' = idx + 1)
       => (/\ get_count' = get_count
           /\ results'[idx].torrent_url = Str(results[idx].MagnetUri.s)
           /\ populated_results' = Append(populated_results, idx))]_vars

\* A processed candidate with a MagnetUri and a Link that would have been fetched.
C3_Witness ==
    /\ idx > 1
    /\ Truthy(results[1].MagnetUri)
    /\ IsHttpUrl(results[1].Link)
    /\ results[1].torrent_url = Str(results[1].MagnetUri.s)
    /\ populated_results # <<>>
    /\ populated_results[1] = 1
    /\ get_count = 0

\* C4 as stated: every returned element has a torrent_url that is not empty and
\* is a magnet url or an http(s) url, for any MagnetUri and any Link.
C4_MagnetOrHttp ==
    \A k \in 1..Len(populated_results) :
        LET t == results[populated_results[k]].torrent_url
        IN  /\ t.tag = "str"
            /\ t.s # <<>>
            /\ is_magnet_url(t.s) \/ IsHttpUrl(t.s)

\* C4 amended: every returned element has a torrent_url that is not empty and
\* is the element's own MagnetUri, a magnet url or an http(s) url.
C4_MagnetUriOrMagnetOrHttp ==
    \A k \in 1..Len(populated_results) :
        LET r == results[populated_results[k]]
            t == r.torrent_url
        IN  /\ t.tag = "str"
            /\ t.s # <<>>
            /\ t = r.MagnetUri \/ is_magnet_url(t.s) \/ IsHttpUrl(t.s)

\* Two returned elements: one traced to an http url, one with a MagnetUri that
\* is no magnet url.
C4_Witness ==
    /\ pc = "filtered"
    /\ Len(populated_results) = 2
    /\ results[1].MagnetUri = Str(<<>>)
    /\ IsHttpUrl(results[1].torrent_url.s)
    /\ Truthy(results[2].MagnetUri)
    /\ ~is_magnet_url(results[2].MagnetUri.s)
    /\ results[2].torrent_url = results[2].MagnetUri

\* Two results that differ only in MagnetUri being the empty string or missing.
EmptyVersusAbsent(r1, r2) ==
    /\ r1.MagnetUri = Str(<<>>)
    /\ r2.MagnetUri = MissingKey
    /\ r1.Link = r2.Link
    /\ r1.Title = r2.Title
    /\ r1.Seeders = r2.Seeders

InPopulated(i) == \E k \in 1..Len(populated_results) : populated_results[k] = i

\* C10: a result whose MagnetUri is the empty string and one whose MagnetUri is
\* absent are treated alike: both are returned or both are left out, with the
\* same torrent_url.
C10_EmptyAsAbsent ==
    \A i, j \in 1..(idx - 1) :
        EmptyVersusAbsent(results[i], results[j]) =>
            /\ InPopulated(i) <=> InPopulated(j)
            /\ results[i].torrent_url = results[j].torrent_url

----------------------------------------------------------------------------
(* Properties of trace_torrent_url *)

\* What the claim expects of a url that is sent: the answer decides.
TraceExpected(u, answer, redirectStatus) ==
    IF answer.kind = "error" \/ answer.status_code >= 400 THEN Raised
    ELSE IF /\ answer.status_code \in redirectStatus
            /\ answer.has_location
            /\ is_magnet_url(answer.location)
    THEN Returned(answer.location)
    ELSE Returned(u)

\* C5 as stated: for a url that is no magnet url, an error status or a network
\* failure raises, a 3xx answer whose Location is a magnet url returns the
\* Location, and every other answer returns the url.
C5_Any3xx ==
    (pc = "traced" /\ ~is_magnet_url(url) /\ IsHttpUrl(url)) =>
        traced = TraceExpected(url, response, 300..399)

\* C5 amended: as stated, but the Location is returned only for the statuses
\* 301, 302, 303, 307 and 308; a 300, 304, 305 or 306 answer returns the url.
C5_RedirectStatuses ==
    (pc = "traced" /\ ~is_magnet_url(url) /\ IsHttpUrl(url)) =>
        traced = TraceExpected(url, response, {301, 302, 303, 307, 308})

\* A 302 to a magnet url, returned in place of the url.
C5_Witness ==
    /\ pc = "traced"
    /\ IsHttpUrl(url)
    /\ response.status_code = 302
    /\ response.has_location
    /\ is_magnet_url(response.location)
    /\ traced = Returned(response.location)

----------------------------------------------------------------------------
(* Properties of swap_jackett_host *)

\* C6: swap_jackett_host changes only host and port and is idempotent: the
\* scheme, the path and the query of the result are those of the url, and
\* swapping the result again changes nothing.  Stated for urls that have a
\* scheme and name a host.
C6_OnlyHostAndPort ==
    (urlsplit(url).scheme # <<>> /\ urlsplit(url).netloc # <<>>) =>
        /\ swap_count >= 1 =>
               /\ urlsplit(swapped_once).scheme = urlsplit(url).scheme
               /\ urlsplit(swapped_once).path = urlsplit(url).path
               /\ urlsplit(swapped_once).query = urlsplit(url).query
        /\ swap_count >= 2 => swapped = swapped_once

----------------------------------------------------------------------------
(* Properties of get_media_new_name_and_path *)

TwoDigits(n) == <<Digit(n \div 10), Digit(n % 10)>>

FourDigits(n) == <<Digit(n \div 1000), Digit((n \div 100) % 10),
                   Digit((n \div 10) % 10), Digit(n % 10)>>

\* The name and the directory the claims give for each kind of media.
ExpectedLabel(m) ==
    CASE m.kind = "WatchMovie" -> m.name \o <<" ", "(">> \o FourDigits(m.release_date.year) \o <<")">>
      [] m.kind = "WatchTVSeason" -> <<"Season", " ">> \o TwoDigits(m.season_number)
      [] m.kind = "WatchTVEpisode" ->
            <<"S">> \o TwoDigits(m.season_number) \o <<"E">> \o TwoDigits(m.episode_number)

ExpectedDir(m) ==
    CASE m.kind = "WatchMovie" -> m.name \o <<" ", "(">> \o FourDigits(m.release_date.year) \o <<")">>
      [] m.kind = "WatchTVSeason" -> m.watch_tv_show.name
      [] m.kind = "WatchTVEpisode" ->
            m.watch_tv_show.name \o <<"/", "Season", " ">> \o TwoDigits(m.season_number)

\* The dot and the word characters that end s, empty when s does not end so.
TrailingExtension(s) ==
    LET dots == {i \in 1..(Len(s) - 1) :
                    s[i] = "." /\ \A k \in (i + 1)..Len(s) : IsWordChar(s[k])}
    IN  IF dots = {} THEN <<>> ELSE SubSeq(s, CHOOSE i \in dots : TRUE, Len(s))

\* s without the newline that ends it, if one does.
Chomp(s) == IF s # <<>> /\ s[Len(s)] = "\n" THEN SubSeq(s, 1, Len(s) - 1) ELSE s

KnownKinds == {"WatchMovie", "WatchTVSeason", "WatchTVEpisode"}

C9_RaisesOnUnknownOnly ==
    pc = "named" =>
        /\ naming.raised <=> watch_media.kind \notin KnownKinds
        /\ watch_media.kind \in KnownKinds =>
               /\ StartsWith(naming.name, ExpectedLabel(watch_media))
               /\ naming.dir_name = ExpectedDir(watch_media)

\* A show, which is none of the three kinds, given as a single file.
C9_Witness ==
    /\ pc = "named"
    /\ watch_media.kind = "WatchTVShow"
    /\ is_single_file
    /\ torrent_name = <<"m", ".", "m">>
    /\ naming.raised

====
